---- MODULE Spec2Model ----
(***************************************************************************)
(* Model of the power-annotation app (src/.github/power/streamlit_app.py): *)
(*   - the case loader (load_cases, make_case_id),                         *)
(*   - the annotation store (load_existing_annotations, upsert_annotation  *)
(*     against the shared "annotations" table),                            *)
(*   - the Annotate-mode form of one browser session.                      *)
(* JSON values are records tagged by "t" so that values of different       *)
(* Python types stay comparable.                                           *)
(***************************************************************************)
EXTENDS Integers, Sequences, FiniteSets, TLC

\* ------------------------------------------------------------------ bounds
\* Longest source file (in lines) given to load_cases.
MaxLines == 3
\* Most Saves pressed in the session whose form is modelled.
MaxSaves == 2

\* ------------------------------------------------------------- JSON values
JAbsent == [t |-> "absent", s |-> ""]
JStr(x) == [t |-> "str", s |-> x]

\* Python truthiness of c.get(key) for the scalar values of the model.
Truthy(v) == v.t = "str" /\ v.s # ""

\* str(x) as an f-string formats it; dflt is the default of dict.get.
Fmt(v, dflt) ==
  CASE v.t = "absent" -> dflt
    [] v.t = "null" -> "None"
    [] OTHER -> v.s

\* str.lstrip()/str.rstrip() on the strings of the model: only " " carries
\* surrounding whitespace.
StripWs(s) == IF s \in {" ", "  "} THEN "" ELSE s

Turn1 == [speaker |-> "Amy", text |-> "Clean your room."]

\* A JSON value found under "script".
ScriptAbsent == [t |-> "absent", turns |-> <<>>]
ScriptList(ts) == [t |-> "list", turns |-> ts]
ScriptStr == [t |-> "str", turns |-> <<>>]

\* A JSON value found under "raw" (or produced by json.loads of a raw string).
RawVal(t, script, s) == [t |-> t, script |-> script, s |-> s]
RawAbsent == RawVal("absent", ScriptAbsent, "")
RawNull == RawVal("null", ScriptAbsent, "")
RawNum == RawVal("num", ScriptAbsent, "")
RawList == RawVal("list", ScriptAbsent, "")
RawDict(script) == RawVal("dict", script, "")
RawStr(s) == RawVal("str", ScriptAbsent, s)
RawError == RawVal("JSONDecodeError", ScriptAbsent, "")

\* json.loads on the raw strings of the model.
JsonLoads(s) ==
  CASE s = "{\"script\": [T]}" -> RawDict(ScriptList(<<Turn1>>))
    [] s = "{\"script\": \"x\"}" -> RawDict(ScriptStr)
    [] s = "{}" -> RawDict(ScriptAbsent)
    [] s = "[1, 2]" -> RawList
    [] s = "null" -> RawNull
    [] s = "5" -> RawNum
    [] OTHER -> RawError

RawStrings == {"not json", "{\"script\": [T]}", "[1, 2]", "null"}

\* ------------------------------------------------------------ make_case_id
MetaVal(t, scn, rel, n1, n2) == [t |-> t, scn |-> scn, rel |-> rel, n1 |-> n1, n2 |-> n2]
MetaNotDict == MetaVal("absent", JAbsent, JAbsent, JAbsent, JAbsent)
MetaEmpty == MetaVal("dict", JAbsent, JAbsent, JAbsent, JAbsent)
MetaDefault == MetaVal("dict", JAbsent, JStr("Unknown"), JStr(""), JStr(""))
MetaAmy == MetaVal("dict", JAbsent, JStr("Parent-Child"), JStr("Amy"), JStr("Ben"))
MetaScn == MetaVal("dict", JStr("s1"), JAbsent, JAbsent, JAbsent)
MetaWs == MetaVal("dict", JAbsent, JAbsent, JAbsent, JStr(" "))
Metas == {MetaNotDict, MetaEmpty, MetaDefault, MetaAmy, MetaScn, MetaWs}

\* hashlib.md5(base).hexdigest()[:10] on the base strings of the model.
Md5Hex10(base) ==
  CASE base = "None|Parent-Child|Amy|Ben" -> "8ffbe9ae41"
    [] base = "s1|Unknown||" -> "ad511b8adc"
    [] base = "None|Unknown|| " -> "692f3f76a3"
    [] OTHER -> "5ecd2515a9"

Digit(d) == CASE d = 0 -> "0" [] d = 1 -> "1" [] d = 2 -> "2" [] d = 3 -> "3"
              [] d = 4 -> "4" [] d = 5 -> "5" [] d = 6 -> "6" [] d = 7 -> "7"
              [] d = 8 -> "8" [] OTHER -> "9"

RECURSIVE IntToStr(_)
IntToStr(n) == IF n < 10 THEN Digit(n) ELSE IntToStr(n \div 10) \o Digit(n % 10)

\* base = f"{scenario_id}|{rel}|{n1}|{n2}".strip(): the "|" separators are
\* not whitespace, so strip() acts on the first and the last component.
CaseIdBase(m) ==
  LET meta == IF m.t = "dict" THEN m ELSE MetaEmpty
  IN StripWs(Fmt(meta.scn, "None")) \o "|" \o Fmt(meta.rel, "Unknown") \o "|"
       \o Fmt(meta.n1, "") \o "|" \o StripWs(Fmt(meta.n2, ""))

make_case_id_nocheck(m, idx) == "case_" \o Md5Hex10(CaseIdBase(m))

make_case_id(m, idx) ==
  LET base == CaseIdBase(m)
  IN IF base # "" /\ base # "None|Unknown||"
       THEN "case_" \o Md5Hex10(base)
       ELSE "idx_" \o IntToStr(idx)

\* -------------------------------------------------------------- load_cases
\* A line of the source file.
Line(t, id, meta, raw) == [t |-> t, id |-> id, meta |-> meta, raw |-> raw]
LineSpaces == Line("spaces", JAbsent, MetaNotDict, RawAbsent)
LineInvalid == Line("invalid", JAbsent, MetaNotDict, RawAbsent)
Obj(id, meta, raw) == Line("obj", id, meta, raw)

GoodRaw == RawDict(ScriptList(<<Turn1>>))

Raws == {RawAbsent, RawNull, RawList, RawDict(ScriptStr)}
          \cup {RawStr(s) : s \in RawStrings}

SuppliedIds == {JStr(""), JStr("x1"), JStr("case_8ffbe9ae41")}

Lines ==
  {LineSpaces, LineInvalid}
    \cup {Obj(JAbsent, m, GoodRaw) : m \in Metas}
    \cup {Obj(i, MetaEmpty, GoodRaw) : i \in SuppliedIds}
    \cup {Obj(JAbsent, MetaEmpty, r) : r \in Raws}

\* line.strip() leaves nothing of an all-blank line.
IsBlank(line) == line.t = "spaces"

\* Lines 72-82: the value of raw before "ensure script".
NormalizeRaw(raw) ==
  IF raw.t = "str"
    THEN (IF JsonLoads(raw.s) = RawError THEN RawDict(ScriptList(<<>>)) ELSE JsonLoads(raw.s))
    ELSE IF raw.t \in {"absent", "null"} THEN RawDict(ScriptList(<<>>))
    ELSE IF raw.t # "dict" THEN RawDict(ScriptList(<<>>))
    ELSE raw

\* Lines 85-88: raw.get("script", []) coerced to a list.
EnsureScript(raw) ==
  IF raw.script.t = "list" THEN raw.script.turns ELSE <<>>

\* The outcome of lines 69-94 on one non-blank line at position idx:
\* err is the exception that aborts the load, "" when a case is appended.
LoadLine(line, idx) ==
  IF line.t = "invalid"
    THEN [err |-> "JSONDecodeError", id |-> "", meta |-> line.meta, script |-> <<>>]
  ELSE IF NormalizeRaw(line.raw).t # "dict"
    THEN [err |-> "AttributeError", id |-> "", meta |-> line.meta, script |-> <<>>]
  ELSE [err |-> "",
        id |-> IF Truthy(line.id) THEN line.id.s ELSE make_case_id(line.meta, idx),
        meta |-> line.meta,
        script |-> EnsureScript(NormalizeRaw(line.raw))]


\* ======================================================= annotation store
POWER_SOURCE_TAGS ==
  <<"ROLE", "RESOURCE", "GATEKEEP", "STATUS", "INFO/EXPERTISE", "TIME/URGENCY",
    "NORM/REPUTATION", "EMOTIONAL LEVERAGE", "COERCION", "COALITION">>

\* The case list the app works on: load_cases on a two-line source.
AppCases ==
  <<LoadLine(Obj(JAbsent, MetaAmy, GoodRaw), 0), LoadLine(Obj(JAbsent, MetaEmpty, GoodRaw), 1)>>

CaseIdx == 1..Len(AppCases)
CaseIdSet == {AppCases[i].id : i \in CaseIdx}

\* The names of the annotator selectbox.
Annotators == {"Harley", "Stella"}
Sessions == {"s1", "s2"}

\* meta.get("name1", "Speaker 1"), meta.get("name2", "Speaker 2")
Name1(case) == Fmt(case.meta.n1, "Speaker 1")
Name2(case) == Fmt(case.meta.n2, "Speaker 2")
WinnerOptions(case) == <<"Tie", Name1(case), Name2(case)>>

\* meta.get(key): None when the key is absent.
MetaSnapshot(case) ==
  [relationship_type |-> Fmt(case.meta.rel, "None"), role1 |-> "None", role2 |-> "None",
   name1 |-> Name1(case), name2 |-> Name2(case)]

NoSnapshot == [relationship_type |-> "", role1 |-> "", role2 |-> "", name1 |-> "", name2 |-> ""]

\* No record: what dict.get returns for a missing case_id.
NoRecord ==
  [case_id |-> "", annotator |-> "", timestamp |-> "", winner |-> "",
   power_sources |-> <<>>, meta_snapshot |-> NoSnapshot]

\* The record the Save handler builds.
SaveRecord(case, a, now, winner, tags) ==
  [case_id |-> case.id, annotator |-> a, timestamp |-> now, winner |-> winner,
   power_sources |-> tags, meta_snapshot |-> MetaSnapshot(case)]

\* The row upsert_annotation sends (updated_at is read from the same clock).
UpsertRow(case_id, a, record, now) ==
  [case_id |-> case_id, annotator |-> a, payload |-> record, updated_at |-> now]

NoRow == [case_id |-> "", annotator |-> "", payload |-> NoRecord, updated_at |-> ""]

\* The key of the shared table: one row per (case_id, annotator).
PrimaryKey(row) == <<row.case_id, row.annotator>>

\* A plain insert: a second row beside the first.
TableInsert(tbl, row) == tbl \cup {row}

\* Conflict resolved on case_id alone.
TableUpsertByCase(tbl, row) == {r \in tbl : r.case_id # row.case_id} \cup {row}

\* The payload merged into the stored one: the stored winner survives.
TableUpsertMerge(tbl, row) ==
  {r \in tbl : PrimaryKey(r) # PrimaryKey(row)}
    \cup {[row EXCEPT !.payload.winner = r.payload.winner] : r \in {q \in tbl : PrimaryKey(q) = PrimaryKey(row)}}
    \cup (IF \E q \in tbl : PrimaryKey(q) = PrimaryKey(row) THEN {} ELSE {row})

\* table("annotations").upsert(row).execute(): the row replaces the row of
\* the same key, or is inserted.
TableUpsert(tbl, row) == {r \in tbl : PrimaryKey(r) # PrimaryKey(row)} \cup {row}

\* A failed write that leaves a truncated payload behind.
FailedWritesPartial(tbl, row) ==
  {tbl, TableUpsert(tbl, row), TableUpsert(tbl, [row EXCEPT !.payload.power_sources = <<>>, !.payload.winner = ""])}

\* What execute() may leave when it raises: the request never reached the
\* table, or the statement was applied and the response was lost.
FailedWrites(tbl, row) == {tbl, TableUpsert(tbl, row)}

\* Every row of the table, whatever its annotator.
load_all_annotations(tbl, a) ==
  [c \in CaseIdSet |->
     IF \E r \in tbl : r.case_id = c
       THEN (CHOOSE r \in tbl : r.case_id = c).payload
       ELSE NoRecord]

\* select("case_id,payload").eq("annotator", annotator): case_id -> payload.
load_existing_annotations(tbl, a) ==
  [c \in CaseIdSet |->
     IF \E r \in tbl : r.annotator = a /\ r.case_id = c
       THEN (CHOOSE r \in tbl : r.annotator = a /\ r.case_id = c).payload
       ELSE NoRecord]

NoAnnotations == [c \in CaseIdSet |-> NoRecord]

\* What the user and the clock give one Save: the winner chosen (an index
\* into the radio options), the tags ticked and datetime.utcnow().
SaveInputs ==
  {[winner |-> 1, tags |-> <<>>, now |-> "2026-01-01T00:00:00"],
   [winner |-> 2, tags |-> <<"ROLE", "COERCION">>, now |-> "2026-01-02T00:00:00"]}

\* The session whose Annotate form is modelled widget by widget.
App == "s1"

\* The tags the user ticks and unticks, the radio options the user picks and
\* the clock readings of the app's Saves.
ToggleTags == {"ROLE"}
PickedWinners == {1, 2}
AppTimes == {"2026-01-02T00:00:00"}

\* A record an earlier session left in the table: Stella's judgment on the
\* first case, with a tag from outside today's vocabulary.
LegacyRow ==
  UpsertRow(AppCases[1].id, "Stella",
            SaveRecord(AppCases[1], "Stella", "2025-12-01T00:00:00",
                       WinnerOptions(AppCases[1])[3], <<"ROLE", "LEGACY">>),
            "2025-12-01T00:00:00")

\* ---------------------------------------------------- the Annotate form
InVocab(t) == \E n \in 1..Len(POWER_SOURCE_TAGS) : POWER_SOURCE_TAGS[n] = t

\* [t for t in POWER_SOURCE_TAGS if <checked>]: the checked tags in
\* vocabulary order.
RECURSIVE InVocabOrderFrom(_, _)
InVocabOrderFrom(checked, n) ==
  IF n > Len(POWER_SOURCE_TAGS) THEN <<>>
  ELSE (IF POWER_SOURCE_TAGS[n] \in checked THEN <<POWER_SOURCE_TAGS[n]>> ELSE <<>>)
         \o InVocabOrderFrom(checked, n + 1)

InVocabOrder(checked) == InVocabOrderFrom(checked, 1)

SeqToSet(q) == {q[n] : n \in 1..Len(q)}

\* [t for t in default_tags if t in POWER_SOURCE_TAGS]
FilterVocab(tags) == SelectSeq(tags, InVocab)

\* options.index(default_winner) if default_winner in options else 0, as a
\* 1-based position; default_winner is "Tie" without a previous record.
DefaultWinnerIdx(ex, i) ==
  LET prev == ex[AppCases[i].id]
      opts == WinnerOptions(AppCases[i])
  IN IF prev # NoRecord /\ \E n \in 1..3 : opts[n] = prev.winner
       THEN CHOOSE n \in 1..3 : opts[n] = prev.winner /\ \A m \in 1..(n - 1) : opts[m] # prev.winner
       ELSE 1

\* default_tags
DefaultTags(ex, i) ==
  IF ex[AppCases[i].id] # NoRecord THEN ex[AppCases[i].id].power_sources ELSE <<>>

\* The sidebar label of case i: its position and whether it is annotated.
NoLabel == [i |-> 0, done |-> FALSE]
Label(i, ex) == [i |-> i, done |-> ex[AppCases[i].id] # NoRecord]

\* The callback a widget event ran and the case_idx it found; none when the
\* last run was started by a widget without callback.
NoCallback == [cb |-> "none", from |-> 0]
Callback(name, idx) == [cb |-> name, from |-> idx]

\* st.session_state[grid_key]: not set, or the list of selected tags.
GridUnset == [set |-> FALSE, tags |-> <<>>]
GridOf(tags) == [set |-> TRUE, tags |-> tags]


VARIABLES
  \* load_cases
  file, lineNo, cases, loadStatus,
  \* the "annotations" table and the sessions using it
  table,      \* the rows of the shared table
  pc,         \* where each session's script run stands
  annotator,  \* st.session_state.annotator
  existing,   \* the dict line 297 loaded in the session's last script run
  pending,    \* the row of the Save in flight (upsert sent, rerun not yet done)
  \* st.session_state of the session App
  mode,       \* "Tutorial" or "Annotate"
  case_idx,   \* position in the case list (1-based here)
  winner_w,   \* the radio winner_<case_id> of the case on screen: 0 when not in session state
  cb_w,       \* the checked boxes tags_grid_<case_id>_<tag> of the case on screen
  tags_grid,  \* tags_grid_<case_id>, per case
  jump_case,  \* st.session_state.jump_case
  show_only,  \* the "Show only unannotated" checkbox
  form_shown, \* the last script run reached the Annotate form and its buttons
  \* history, for stating the claims
  lastWrite,  \* per key: the record of the last write applied to the table
  saves,      \* Saves pressed in App so far
  touched,    \* the user changed a widget of the form since the annotator was selected
  last_cb     \* the callback that ran before the last script run, and the case_idx it found

loadVars == <<file, lineNo, cases, loadStatus>>
storeVars == <<table, pc, annotator, existing, pending, lastWrite>>
uiVars == <<mode, case_idx, winner_w, cb_w, tags_grid, jump_case, show_only, form_shown,
            saves, touched, last_cb>>
vars == <<file, lineNo, cases, loadStatus, table, pc, annotator, existing, pending, lastWrite,
          mode, case_idx, winner_w, cb_w, tags_grid, jump_case, show_only, form_shown,
          saves, touched, last_cb>>

Keys == CaseIdSet \X Annotators

StoreInit ==
  /\ table = {}
  /\ pc = [s \in Sessions |-> "idle"]
  /\ annotator = [s \in Sessions |-> "Harley"]
  /\ existing = [s \in Sessions |-> NoAnnotations]
  /\ pending = [s \in Sessions |-> NoRow]
  /\ lastWrite = [k \in Keys |-> NoRecord]

\* Lines 275-282: the session state of a new session; no widget has run.
UiInit ==
  /\ mode = "Tutorial"
  /\ case_idx = 1
  /\ winner_w = 0
  /\ cb_w = {}
  /\ tags_grid = [c \in CaseIdSet |-> GridUnset]
  /\ jump_case = NoLabel
  /\ show_only = FALSE
  /\ form_shown = FALSE
  /\ saves = 0
  /\ touched = FALSE
  /\ last_cb = NoCallback

LoadInit ==
  /\ file \in UNION {[1..n -> Lines] : n \in 0..MaxLines}
  /\ lineNo = 0
  /\ cases = <<>>
  /\ loadStatus = "reading"
  /\ StoreInit
  /\ UiInit

\* for idx, line in enumerate(f): a blank line is skipped.
SkipBlank ==
  /\ loadStatus = "reading"
  /\ lineNo < Len(file)
  /\ IsBlank(file[lineNo + 1])
  /\ lineNo' = lineNo + 1
  /\ UNCHANGED <<file, cases, loadStatus, storeVars, uiVars>>

\* A non-blank line is parsed, normalised, given an id and appended.
AppendCase ==
  /\ loadStatus = "reading"
  /\ lineNo < Len(file)
  /\ ~IsBlank(file[lineNo + 1])
  /\ LoadLine(file[lineNo + 1], lineNo).err = ""
  /\ cases' = Append(cases, LoadLine(file[lineNo + 1], lineNo))
  /\ lineNo' = lineNo + 1
  /\ UNCHANGED <<file, loadStatus, storeVars, uiVars>>

\* An exception leaves load_cases: nothing is returned.
LoadRaise ==
  /\ loadStatus = "reading"
  /\ lineNo < Len(file)
  /\ ~IsBlank(file[lineNo + 1])
  /\ LoadLine(file[lineNo + 1], lineNo).err # ""
  /\ loadStatus' = LoadLine(file[lineNo + 1], lineNo).err
  /\ UNCHANGED <<file, lineNo, cases, storeVars, uiVars>>

\* return cases
LoadReturn ==
  /\ loadStatus = "reading"
  /\ lineNo = Len(file)
  /\ loadStatus' = "returned"
  /\ UNCHANGED <<file, lineNo, cases, storeVars, uiVars>>

LoadNext == SkipBlank \/ AppendCase \/ LoadRaise \/ LoadReturn

SpecLoad == LoadInit /\ [][LoadNext]_vars

\* -------------------------------------------------- sessions and the store
\* The line-297 read with what the session already holds for the annotator
\* reused instead of queried again.
ExistingCached(s, a) ==
  IF annotator[s] = a /\ pc[s] # "idle"
    THEN existing[s]
    ELSE load_existing_annotations(table, a)

\* Line 297 in a script run of session s whose annotator is a.
Existing(s, a) == load_existing_annotations(table, a)

\* A script run without Save: the annotator selectbox may have changed; the
\* run reloads the annotator's records.
Rerun(s, a) ==
  /\ pc[s] \in {"idle", "error"}
  /\ annotator' = [annotator EXCEPT ![s] = a]
  /\ existing' = [existing EXCEPT ![s] = Existing(s, a)]
  /\ pc' = [pc EXCEPT ![s] = "idle"]
  /\ UNCHANGED <<table, pending, lastWrite, loadVars>>

\* The run in which "Save annotation" is pressed on case i: it reloads the
\* records, builds the record and the row and sends the upsert.
SaveClick(s, i, inp) ==
  /\ pc[s] \in {"idle", "error"}
  /\ existing' = [existing EXCEPT ![s] = Existing(s, annotator[s])]
  /\ pending' = [pending EXCEPT ![s] =
       UpsertRow(AppCases[i].id, annotator[s],
                 SaveRecord(AppCases[i], annotator[s], inp.now,
                            WinnerOptions(AppCases[i])[inp.winner], inp.tags),
                 inp.now)]
  /\ pc' = [pc EXCEPT ![s] = "upsert"]
  /\ UNCHANGED <<table, annotator, lastWrite, loadVars>>

\* execute() returns: the row is in the table; st.success, then st.rerun().
UpsertOk(s) ==
  /\ pc[s] = "upsert"
  /\ table' = TableUpsert(table, pending[s])
  /\ pc' = [pc EXCEPT ![s] = "rerun"]
  /\ lastWrite' = [lastWrite EXCEPT ![PrimaryKey(pending[s])] = pending[s].payload]
  /\ UNCHANGED <<annotator, existing, pending, loadVars>>

\* execute() raises: nothing catches it and nothing sends the row again; the
\* run ends with the error on screen.
UpsertFail(s) ==
  /\ pc[s] = "upsert"
  /\ table' \in FailedWrites(table, pending[s])
  /\ pc' = [pc EXCEPT ![s] = "error"]
  /\ pending' = [pending EXCEPT ![s] = NoRow]
  /\ lastWrite' = IF table' = table THEN lastWrite
                  ELSE [lastWrite EXCEPT ![PrimaryKey(pending[s])] = pending[s].payload]
  /\ UNCHANGED <<annotator, existing, loadVars>>

\* The run st.rerun() starts after a Save: it reloads the records.
SaveRerun(s) ==
  /\ pc[s] = "rerun"
  /\ existing' = [existing EXCEPT ![s] = Existing(s, annotator[s])]
  /\ pc' = [pc EXCEPT ![s] = "idle"]
  /\ pending' = [pending EXCEPT ![s] = NoRow]
  /\ UNCHANGED <<table, annotator, lastWrite, loadVars>>

\* The sessions as users of the store: which case is on screen and what the
\* form holds are inputs here, and the widgets of App are left alone.
PlainRun(s, a) == Rerun(s, a) /\ UNCHANGED uiVars
PressSave(s, i, inp) == SaveClick(s, i, inp) /\ UNCHANGED uiVars
UpsertReturns(s) == UpsertOk(s) /\ UNCHANGED uiVars
UpsertRaises(s) == UpsertFail(s) /\ UNCHANGED uiVars
RerunAfterSave(s) == SaveRerun(s) /\ UNCHANGED uiVars

StoreNext ==
  \E s \in Sessions :
    \/ \E a \in Annotators : PlainRun(s, a)
    \/ \E i \in CaseIdx, inp \in SaveInputs : PressSave(s, i, inp)
    \/ UpsertReturns(s)
    \/ UpsertRaises(s)
    \/ RerunAfterSave(s)

\* The app's sessions start once load_cases is not running.
Init ==
  /\ file = <<>>
  /\ lineNo = 0
  /\ cases = <<>>
  /\ loadStatus = "reading"
  /\ StoreInit
  /\ UiInit

Spec == Init /\ [][StoreNext]_vars

\* ------------------------------------------- the Annotate form of session App
\* What one script run leaves in the session state of the form, given the
\* records ex it loaded: r and c are the radio and the checkboxes as the run
\* finds them (r = 0: the case's widgets were not on screen in the last run,
\* so their keys are gone), j is jump_case as the run finds it.
RenderOutcomes(ex, m, i, r, c, j) ==
  IF m = "Tutorial"
    THEN {[radio |-> 0, cb |-> {}, grid |-> tags_grid, jump |-> NoLabel]}
    ELSE
      LET cid == AppCases[i].id
          oldDef == DefaultWinnerIdx(existing[App], i)
          newDef == DefaultWinnerIdx(ex, i)
          \* a radio found in session state keeps its value; when its index
          \* argument differs from the last run's, the widget may also be
          \* taken for a new one and start from the new index
          radios == IF r = 0 THEN {newDef}
                    ELSE IF oldDef = newDef THEN {r} ELSE {r, newDef}
          grid0 == IF tags_grid[cid].set THEN tags_grid[cid].tags
                   ELSE FilterVocab(DefaultTags(ex, i))
          cb == IF r = 0 THEN SeqToSet(grid0) ELSE c
      IN {[radio |-> w, cb |-> cb,
           grid |-> [tags_grid EXCEPT ![cid] = GridOf(InVocabOrder(cb))],
           jump |-> IF j = NoLabel THEN Label(i, ex) ELSE j] : w \in radios}

SetUi(m, i, rv) ==
  /\ mode' = m
  /\ case_idx' = i
  /\ winner_w' = rv.radio
  /\ cb_w' = rv.cb
  /\ tags_grid' = rv.grid
  /\ jump_case' = rv.jump
  /\ show_only' = (m = "Annotate" /\ show_only)
  /\ form_shown' = (m = "Annotate")

\* A script run of App without Save, after the event set annotator a, mode
\* m, case i and the widget values r, c, j.
AppRun(a, m, i, r, c, j) ==
  \E rv \in RenderOutcomes(Existing(App, a), m, i, r, c, j) :
    /\ Rerun(App, a)
    /\ SetUi(m, i, rv)

\* The annotator selectbox is changed.
SelectAnnotator(a) ==
  /\ a # annotator[App]
  /\ AppRun(a, mode, case_idx, winner_w, cb_w, jump_case)
  /\ touched' = FALSE
  /\ last_cb' = NoCallback
  /\ UNCHANGED saves

\* The mode radio is changed.
SelectMode(m) ==
  /\ m # mode
  /\ pc[App] \in {"idle", "error"}
  /\ AppRun(annotator[App], m, case_idx, winner_w, cb_w, jump_case)
  /\ last_cb' = NoCallback
  /\ UNCHANGED <<saves, touched>>

\* The user picks option w of the winner radio.
PickWinner(w) ==
  /\ mode = "Annotate"
  /\ w # winner_w
  /\ AppRun(annotator[App], mode, case_idx, w, cb_w, jump_case)
  /\ touched' = TRUE
  /\ last_cb' = NoCallback
  /\ UNCHANGED saves

\* The user ticks or unticks the checkbox of tag t.
ToggleTag(t) ==
  /\ mode = "Annotate"
  /\ AppRun(annotator[App], mode, case_idx, winner_w,
            IF t \in cb_w THEN cb_w \ {t} ELSE cb_w \cup {t}, jump_case)
  /\ touched' = TRUE
  /\ last_cb' = NoCallback
  /\ UNCHANGED saves

Min(x, y) == IF x < y THEN x ELSE y
Max(x, y) == IF x > y THEN x ELSE y

\* A "Next" that starts over after the last case.
go_next_wrap(idx) == IF idx = Len(AppCases) THEN 1 ELSE idx + 1

\* go_next, go_prev: the new case_idx (positions are 1-based here, so the
\* code's len(cases) - 1 and 0 are Len(AppCases) and 1).
go_next(idx) == Min(idx + 1, Len(AppCases))
go_prev(idx) == Max(idx - 1, 1)

\* "Next": go_next and sync_jump_case run before the script run (the labels
\* are those of the last run); the button is disabled on the last case.
GoNext ==
  /\ mode = "Annotate"
  /\ case_idx # Len(AppCases)
  /\ LET i == go_next(case_idx)
     IN AppRun(annotator[App], mode, i, 0, {}, Label(i, existing[App]))
  /\ last_cb' = Callback("go_next", case_idx)
  /\ UNCHANGED <<saves, touched>>

\* "Previous": go_prev and sync_jump_case; disabled on the first case.
GoPrev ==
  /\ mode = "Annotate"
  /\ case_idx # 1
  /\ LET i == go_prev(case_idx)
     IN AppRun(annotator[App], mode, i, 0, {}, Label(i, existing[App]))
  /\ last_cb' = Callback("go_prev", case_idx)
  /\ UNCHANGED <<saves, touched>>

\* "Save annotation": the run renders the form and sends what it shows.
Save ==
  /\ mode = "Annotate"
  /\ saves < MaxSaves
  /\ saves' = saves + 1
  /\ \E now \in AppTimes,
        rv \in RenderOutcomes(Existing(App, annotator[App]), mode, case_idx, winner_w, cb_w, jump_case) :
       /\ SaveClick(App, case_idx,
                    [winner |-> rv.radio, tags |-> rv.grid[AppCases[case_idx].id].tags, now |-> now])
       /\ SetUi(mode, case_idx, rv)
  /\ last_cb' = NoCallback
  /\ UNCHANGED touched

SaveReturns == UpsertOk(App) /\ UNCHANGED uiVars

SaveRaises == UpsertFail(App) /\ UNCHANGED uiVars

\* The run after st.rerun().
SaveRerunRenders ==
  /\ \E rv \in RenderOutcomes(Existing(App, annotator[App]), mode, case_idx, winner_w, cb_w, jump_case) :
       /\ SaveRerun(App)
       /\ SetUi(mode, case_idx, rv)
  /\ last_cb' = NoCallback
  /\ UNCHANGED <<saves, touched>>

AppNext ==
  \/ \E a \in Annotators : SelectAnnotator(a)
  \/ \E m \in {"Tutorial", "Annotate"} : SelectMode(m)
  \/ \E w \in PickedWinners : PickWinner(w)
  \/ \E t \in ToggleTags : ToggleTag(t)
  \/ GoNext
  \/ GoPrev
  \/ Save
  \/ SaveReturns
  \/ SaveRaises
  \/ SaveRerunRenders

\* The table as earlier sessions left it: empty, or holding a record.
AppInit ==
  /\ file = <<>>
  /\ lineNo = 0
  /\ cases = <<>>
  /\ loadStatus = "reading"
  /\ table \in {{}, {LegacyRow}}
  /\ pc = [s \in Sessions |-> "idle"]
  /\ annotator = [s \in Sessions |-> "Harley"]
  /\ existing = [s \in Sessions |-> NoAnnotations]
  /\ pending = [s \in Sessions |-> NoRow]
  /\ lastWrite = [k \in Keys |-> IF \E r \in table : PrimaryKey(r) = k
                                  THEN (CHOOSE r \in table : PrimaryKey(r) = k).payload
                                  ELSE NoRecord]
  /\ UiInit

SpecApp == AppInit /\ [][AppNext]_vars

\* -------------------------------------------- the sidebar's "Jump to Case"
\* full_labels: one label per case, in case order.
full_labels(ex) == [n \in CaseIdx |-> Label(n, ex)]

IsUnannotated(lab) == ~lab.done

\* labels: the options of the selectbox; with "Show only unannotated" the
\* labels of the cases without record, or all of them when none is left.
labels(ex, so) ==
  LET un == SelectSeq(full_labels(ex), IsUnannotated)
  IN IF so /\ un # <<>> THEN un ELSE full_labels(ex)

\* on_jump_change: full_labels.index(chosen)
on_jump_change(chosen, fl) ==
  CHOOSE n \in 1..Len(fl) : fl[n] = chosen /\ \A k \in 1..(n - 1) : fl[k] # chosen

\* What a run leaves in jump_case, and whether it gets past the selectbox.
\* Line 362 sets a missing jump_case.  A value that is among the options
\* stays.  One that is not (the marks changed with the records, or the
\* filter hides the case) may stay as it is, may be replaced by the first
\* option, or may make the selectbox raise, which ends the run before the
\* main area: which of these happens depends on the Streamlit version.
JumpOutcomes(ex, m, i, so, j) ==
  IF m = "Tutorial"
    THEN {[jump |-> NoLabel, ok |-> TRUE]}
    ELSE
      LET j1 == IF j = NoLabel THEN full_labels(ex)[i] ELSE j
          opts == labels(ex, so)
      IN IF j1 \in SeqToSet(opts)
           THEN {[jump |-> j1, ok |-> TRUE]}
           ELSE {[jump |-> j1, ok |-> TRUE], [jump |-> opts[1], ok |-> TRUE],
                 [jump |-> j1, ok |-> FALSE], [jump |-> NoLabel, ok |-> FALSE]}

\* The session state after a run that got as far as jo says: a run that
\* stopped at the selectbox rendered no form, so the form's widget keys are
\* dropped and tags_grid stays.
NavSetUi(m, i, so, jo, rv) ==
  /\ mode' = m
  /\ case_idx' = i
  /\ show_only' = (m = "Annotate" /\ so)
  /\ jump_case' = jo.jump
  /\ form_shown' = (m = "Annotate" /\ jo.ok)
  /\ winner_w' = IF jo.ok THEN rv.radio ELSE 0
  /\ cb_w' = IF jo.ok THEN rv.cb ELSE {}
  /\ tags_grid' = IF jo.ok THEN rv.grid ELSE tags_grid

\* A script run of App without Save, after the event set annotator a, mode
\* m, case i, the checkbox so and jump_case j.  The widgets of the form are
\* found in session state when the form of the same case was on screen.
NavRun(a, m, i, so, j) ==
  LET r == IF i = case_idx THEN winner_w ELSE 0
      c == IF i = case_idx THEN cb_w ELSE {}
  IN \E jo \in JumpOutcomes(Existing(App, a), m, i, so, j) :
       \E rv \in RenderOutcomes(Existing(App, a), m, i, r, c, jo.jump) :
         /\ Rerun(App, a)
         /\ NavSetUi(m, i, so, jo, rv)

NavSelectAnnotator(a) ==
  /\ a # annotator[App]
  /\ NavRun(a, mode, case_idx, show_only, jump_case)
  /\ last_cb' = NoCallback
  /\ UNCHANGED <<saves, touched>>

NavSelectMode(m) ==
  /\ m # mode
  /\ pc[App] \in {"idle", "error"}
  /\ NavRun(annotator[App], m, case_idx, show_only, jump_case)
  /\ last_cb' = NoCallback
  /\ UNCHANGED <<saves, touched>>

\* The "Show only unannotated" checkbox is ticked or unticked.
ToggleShowOnly ==
  /\ mode = "Annotate"
  /\ NavRun(annotator[App], mode, case_idx, ~show_only, jump_case)
  /\ last_cb' = NoCallback
  /\ UNCHANGED <<saves, touched>>

\* The user picks another option of the "Case" selectbox: the widget value
\* is the option picked, on_jump_change runs with the labels of the last
\* run, then the script runs.
Jump(chosen) ==
  /\ mode = "Annotate"
  /\ form_shown
  /\ chosen \in SeqToSet(labels(existing[App], show_only))
  /\ chosen # jump_case
  /\ NavRun(annotator[App], mode, on_jump_change(chosen, full_labels(existing[App])),
            show_only, chosen)
  /\ last_cb' = Callback("on_jump_change", case_idx)
  /\ UNCHANGED <<saves, touched>>

\* The button of a navigation callback can be clicked: it is on screen and
\* enabled, or it was so before the last run, itself started by a
\* navigation button, and the second click of a double click arrives before
\* the browser has drawn that run's buttons.
Clickable(disabled_at) ==
  /\ mode = "Annotate"
  /\ form_shown
  /\ \/ case_idx # disabled_at
     \/ last_cb.cb \in {"go_next", "go_prev"} /\ last_cb.from # disabled_at

\* "Next": go_next and sync_jump_case, then the script runs.
NavNext ==
  /\ Clickable(Len(AppCases))
  /\ LET i == go_next(case_idx)
     IN NavRun(annotator[App], mode, i, show_only, full_labels(existing[App])[i])
  /\ last_cb' = Callback("go_next", case_idx)
  /\ UNCHANGED <<saves, touched>>

\* "Previous": go_prev and sync_jump_case, then the script runs.
NavPrev ==
  /\ Clickable(1)
  /\ LET i == go_prev(case_idx)
     IN NavRun(annotator[App], mode, i, show_only, full_labels(existing[App])[i])
  /\ last_cb' = Callback("go_prev", case_idx)
  /\ UNCHANGED <<saves, touched>>

\* "Save annotation" in a run that reaches the form: case and case_id are
\* those of lines 489-490 in this run.
NavSave ==
  /\ mode = "Annotate"
  /\ form_shown
  /\ saves < MaxSaves
  /\ saves' = saves + 1
  /\ \E now \in AppTimes,
        jo \in JumpOutcomes(Existing(App, annotator[App]), mode, case_idx, show_only, jump_case) :
       /\ jo.ok
       /\ \E rv \in RenderOutcomes(Existing(App, annotator[App]), mode, case_idx,
                                   winner_w, cb_w, jo.jump) :
            /\ SaveClick(App, case_idx,
                         [winner |-> rv.radio, tags |-> rv.grid[AppCases[case_idx].id].tags,
                          now |-> now])
            /\ NavSetUi(mode, case_idx, show_only, jo, rv)
  /\ last_cb' = NoCallback
  /\ UNCHANGED touched

\* The run after st.rerun(): the marks of the labels follow the new record.
NavSaveRerun ==
  /\ \E jo \in JumpOutcomes(Existing(App, annotator[App]), mode, case_idx, show_only, jump_case) :
       \E rv \in RenderOutcomes(Existing(App, annotator[App]), mode, case_idx,
                                winner_w, cb_w, jo.jump) :
         /\ SaveRerun(App)
         /\ NavSetUi(mode, case_idx, show_only, jo, rv)
  /\ last_cb' = NoCallback
  /\ UNCHANGED <<saves, touched>>

NavSaveReturns == UpsertOk(App) /\ UNCHANGED uiVars

NavSaveRaises == UpsertFail(App) /\ UNCHANGED uiVars

NavigationNext ==
  \/ \E a \in Annotators : NavSelectAnnotator(a)
  \/ \E m \in {"Tutorial", "Annotate"} : NavSelectMode(m)
  \/ ToggleShowOnly
  \/ \E k \in CaseIdx, d \in BOOLEAN : Jump([i |-> k, done |-> d])
  \/ NavNext
  \/ NavPrev
  \/ NavSave
  \/ NavSaveReturns
  \/ NavSaveRaises
  \/ NavSaveRerun

SpecNav == AppInit /\ [][NavigationNext]_vars

\* ---------------------------------------------- claims on the annotation store
RowsAt(c, a) == {r \in table : r.case_id = c /\ r.annotator = a}

\* list(a): what a caller reading now would get.
List(a) == load_existing_annotations(table, a)

\* Session s performs a read of the store in this step.
Reads(s) == (\E a \in Annotators : Rerun(s, a)) \/ SaveRerun(s)

\* C1: the table never holds two records for one (annotator, case_id) pair,
\* and holds exactly one for every pair that has been written: a repeated
\* upsert replaces, it does not add.
C1_OneRecordPerPair ==
  \A k \in Keys :
    /\ Cardinality(RowsAt(k[1], k[2])) <= 1
    /\ lastWrite[k] # NoRecord => Cardinality(RowsAt(k[1], k[2])) = 1

\* Two sessions have each upserted the same record for the same pair, and one
\* row is there.
C1_Witness ==
  \E s1, s2 \in Sessions :
    /\ s1 # s2 /\ pc[s1] = "rerun" /\ pc[s2] = "rerun"
    /\ pending[s1] = pending[s2]
    /\ RowsAt(pending[s1].case_id, pending[s1].annotator) = {pending[s1]}

\* C2: when upsert(a, c, r2) returns, list(a)[c] is r2 in every field,
\* whatever record was stored for (a, c) before: nothing of it survives.
C2_FullReplacement ==
  [][\A s \in Sessions :
       UpsertOk(s) =>
         load_existing_annotations(table', pending[s].annotator)[pending[s].case_id]
           = pending[s].payload]_vars

\* Two upserts of records differing in winner, tags and timestamp have hit
\* one key; the later one is what list returns.
C2_Witness ==
  \E s1, s2 \in Sessions :
    /\ pc[s1] = "rerun" /\ pc[s2] = "rerun"
    /\ PrimaryKey(pending[s1]) = PrimaryKey(pending[s2])
    /\ pending[s1].payload.winner # pending[s2].payload.winner
    /\ pending[s1].payload.power_sources # pending[s2].payload.power_sources
    /\ pending[s1].payload.timestamp # pending[s2].payload.timestamp
    /\ List(pending[s2].annotator)[pending[s2].case_id] = pending[s2].payload

\* C3: every read of the store made by any session returns, for each case,
\* the record of the last write applied for (annotator, case): no read that
\* starts after an upsert has returned shows an older value or none.
C3_ReadsSeeCompletedWrites ==
  [][\A s \in Sessions :
       Reads(s) =>
         \A c \in CaseIdSet : existing'[s][c] = lastWrite[<<c, annotator'[s]>>]]_vars

\* One session has saved and reloaded, and the other session, reading for
\* the same annotator, shows the same record.
C3_Witness ==
  \E s1, s2 \in Sessions, c \in CaseIdSet :
    /\ s1 # s2 /\ pc[s1] = "idle" /\ pc[s2] = "idle"
    /\ annotator[s1] = annotator[s2]
    /\ lastWrite[<<c, annotator[s1]>>] # NoRecord
    /\ existing[s1][c] = lastWrite[<<c, annotator[s1]>>]
    /\ existing[s2][c] = lastWrite[<<c, annotator[s1]>>]

\* C4: an upsert for annotator X, returned or failed, leaves list(Y)
\* unchanged for every other annotator Y, also at the case X wrote.
C4_IsolationAcrossAnnotators ==
  [][\A s \in Sessions :
       (UpsertOk(s) \/ UpsertFail(s)) =>
         \A y \in Annotators \ {pending[s].annotator} :
           load_existing_annotations(table', y) = load_existing_annotations(table, y)]_vars

\* X has just written case c while Y holds a different record for c.
C4_Witness ==
  \E s \in Sessions, y \in Annotators :
    /\ pc[s] = "rerun" /\ y # pending[s].annotator
    /\ List(y)[pending[s].case_id] # NoRecord
    /\ List(y)[pending[s].case_id].winner # pending[s].payload.winner
    /\ List(pending[s].annotator)[pending[s].case_id] = pending[s].payload

\* C5: under every interleaving of the sessions' upserts the table holds, for
\* each key, exactly the record of the last write applied to that key (one
\* writer's record, whole), and nothing for a key never written.
C5_ConcurrentUpsertsKeepStore ==
  \A k \in Keys :
    {r.payload : r \in RowsAt(k[1], k[2])}
      = IF lastWrite[k] = NoRecord THEN {} ELSE {lastWrite[k]}

\* Two sessions of one annotator have upserted different cases at the same
\* time, and both records are stored.
C5_Witness ==
  \E s1, s2 \in Sessions :
    /\ pc[s1] = "rerun" /\ pc[s2] = "rerun"
    /\ pending[s1].annotator = pending[s2].annotator
    /\ pending[s1].case_id # pending[s2].case_id
    /\ pending[s1] \in table /\ pending[s2] \in table

\* C6: an upsert in flight ends either reported as saved with the row in the
\* table, or as an error that nothing sends again, with list(a)[c] the old
\* value or the new record and every other key as before.
C6_FailedUpsertAtomic ==
  [][\A s \in Sessions :
       (pc[s] = "upsert" /\ pc'[s] # "upsert") =>
         \/ pc'[s] = "rerun" /\ pending[s] \in table'
         \/ /\ pc'[s] = "error"
            /\ pending'[s] = NoRow
            /\ \A k \in Keys :
                 LET old == load_existing_annotations(table, k[2])[k[1]]
                     new == load_existing_annotations(table', k[2])[k[1]]
                 IN IF k = <<pending[s].case_id, pending[s].annotator>>
                      THEN new \in {old, pending[s].payload}
                      ELSE new = old]_vars

\* A Save has failed for a key that holds a record.
C6_Witness ==
  \E s \in Sessions, c \in CaseIdSet :
    /\ pc[s] = "error"
    /\ List(annotator[s])[c] # NoRecord

\* ------------------------------------------------- claims on the Annotate form
\* C10: in Annotate mode, when the annotator has a stored record for the
\* case on screen and no widget of the form was changed since the annotator
\* was selected, the form shows the record: the winner shown is the record's
\* winner and the tags shown are its power_sources within the vocabulary.
C10_FormPrefilledFromRecord ==
  (mode = "Annotate" /\ pc[App] = "idle" /\ ~touched) =>
    LET cid == AppCases[case_idx].id
        prev == existing[App][cid]
    IN prev # NoRecord =>
         /\ WinnerOptions(AppCases[case_idx])[winner_w] = prev.winner
         /\ SeqToSet(tags_grid[cid].tags) = SeqToSet(FilterVocab(prev.power_sources))

\* ------------------------------------------------- claims on the case loader
\* The position (0-based line index) of the line the k-th loaded case comes from.
SrcPos(k) ==
  CHOOSE p \in 0..(Len(file) - 1) :
    /\ ~IsBlank(file[p + 1])
    /\ Cardinality({q \in 0..(p - 1) : ~IsBlank(file[q + 1])}) = k - 1

SrcLine(k) == file[SrcPos(k) + 1]

\* The source line carries no usable id and no metadata beyond the defaults.
IsDefaultMeta(m) ==
  \/ m.t # "dict"
  \/ /\ m.scn = JAbsent
     /\ m.rel \in {JAbsent, JStr("Unknown")}
     /\ m.n1 \in {JAbsent, JStr("")}
     /\ m.n2 \in {JAbsent, JStr("")}

NeedsFallback(k) == ~Truthy(SrcLine(k).id) /\ IsDefaultMeta(SrcLine(k).meta)

\* The ids the source itself supplies are pairwise distinct.
SuppliedIdsDistinct ==
  \A p, q \in 1..Len(file) :
    (p # q /\ file[p].t = "obj" /\ file[q].t = "obj" /\ Truthy(file[p].id) /\ Truthy(file[q].id))
      => file[p].id # file[q].id

\* C7: in the sequence load_cases returns every case has an id and no two
\* cases share one, whether the id was supplied, hashed from the metadata or
\* the idx_<position> fallback. (Files that themselves repeat a supplied id
\* are left aside, so that a violation is the loader's own doing.)
C7_IdsUniqueInLoadedSet ==
  (loadStatus = "returned" /\ SuppliedIdsDistinct) =>
    /\ \A i \in 1..Len(cases) : cases[i].id # ""
    /\ \A i, j \in 1..Len(cases) : i # j => cases[i].id # cases[j].id

\* Every non-blank line of the file is a valid JSON object.
AllLinesValidObjects == \A p \in 1..Len(file) : file[p].t # "invalid"

\* The raw payload of a source line is a dict whose script is a list.
UsableRaw(raw) ==
  \/ raw.t = "dict" /\ raw.script.t = "list"
  \/ raw.t = "str" /\ JsonLoads(raw.s).t = "dict" /\ JsonLoads(raw.s).script.t = "list"

\* C8: when every line is a valid JSON object, load_cases never fails on
\* account of raw: each case is loaded with an id and a list as script, the
\* empty list when raw was unusable or script was not a list.
C8_RawNeverFailsLoad ==
  AllLinesValidObjects =>
    /\ loadStatus \in {"reading", "returned"}
    /\ \A k \in 1..Len(cases) :
         /\ cases[k].id # ""
         /\ ~UsableRaw(SrcLine(k).raw) => cases[k].script = <<>>

\* C9: every case without an id and with empty/default metadata gets the id
\* idx_<position of its line>, and these fallback ids are pairwise distinct,
\* blank lines in the file notwithstanding.
C9_FallbackIdsDistinct ==
  \A i \in 1..Len(cases) :
    NeedsFallback(i) =>
      /\ cases[i].id = "idx_" \o IntToStr(SrcPos(i))
      /\ \A j \in 1..Len(cases) : (j # i /\ NeedsFallback(j)) => cases[j].id # cases[i].id

\* Two fallback cases loaded from a file that also holds a blank line before
\* the second of them.
C9_Witness ==
  /\ loadStatus = "returned"
  /\ \E i, j \in 1..Len(cases) :
       /\ i < j /\ NeedsFallback(i) /\ NeedsFallback(j)
       /\ \E p \in 0..(SrcPos(j) - 1) : IsBlank(file[p + 1])

\* --------------------------------------------------- claims on navigation
\* The table holds, under the id of the case at case_idx and the session's
\* annotator, the record of the Save in flight.
SavedUnderCurrentCase ==
  \E r \in table :
    /\ PrimaryKey(r) = <<AppCases[case_idx].id, annotator[App]>>
    /\ r.payload = pending[App].payload

\* C11: with a non-empty case list, whatever go_next, go_prev and
\* jump-to-case did, case_idx is a position of the case list; after go_next
\* ran at the last case case_idx is still the last case, after go_prev ran
\* at the first case it is still the first; and the row a Save sends, and
\* the record it has written once the upsert returned, carry the id of the
\* case at case_idx.
C11_CaseIdxWithinCaseList ==
  /\ Len(AppCases) > 0
  /\ case_idx \in 1..Len(AppCases)
  /\ last_cb = Callback("go_next", Len(AppCases)) => case_idx = Len(AppCases)
  /\ last_cb = Callback("go_prev", 1) => case_idx = 1
  /\ pending[App] # NoRow => pending[App].case_id = AppCases[case_idx].id
  /\ pc[App] = "rerun" => SavedUnderCurrentCase

\* go_next has run at the last case, in a session that has saved a record
\* of the last case and has also used the "Case" selectbox's filter.
C11_Witness ==
  /\ last_cb = Callback("go_next", Len(AppCases))
  /\ case_idx = Len(AppCases)
  /\ show_only
  /\ \E r \in table :
       /\ PrimaryKey(r) = <<AppCases[Len(AppCases)].id, annotator[App]>>
       /\ r.payload.timestamp \in AppTimes
====
